---- MODULE Spec2Model ----
(***************************************************************************)
(* Model of gdeep/data/preprocessing_pipes.py: the fit/transform stages,   *)
(* their persistence (save_pretrained / load_pretrained) and the           *)
(* PreprocessingPipeline that composes them.                               *)
(*                                                                         *)
(* A Python object is modelled by its __dict__: a function from attribute  *)
(* names to values.  Strings are sequences of character codes, so that the *)
(* tokenizers really split them.  A raised exception is a result of kind   *)
(* "raise" carrying the exception's name.                                  *)
(***************************************************************************)
EXTENDS Integers, Sequences, FiniteSets, TLC

VARIABLES
    cls,      \* cls[i]: the class of stage instance i (fixed at construction)
    stage,    \* stage[i]: the __dict__ of stage instance i
    files,    \* files[p][c]: the content of <p>/<c>.json
    call,     \* the last call made: [op, inst, arg]
    ret,      \* its outcome: [kind, val, load, warn]
    nfit,     \* nfit[i]: number of fit_to_data calls instance i has returned from (capped)
    made,     \* made[i]: the __dict__ instance i had when its constructor returned
    pipes,    \* pipes[n]: list_of_cls of pipeline n, a list of <<instance, data type marker>>
    handles   \* handles[i]: the file instance i has open for writing inside save_pretrained

vars == <<cls, stage, files, call, ret, nfit, made, pipes, handles>>

----------------------------------------------------------------------------
(* Bounds of the model *)

\* longest dataset handed to fit_to_data
MaxData == 2

----------------------------------------------------------------------------
(* Python values *)

\* every Python value is [py |-> its type, v |-> a sequence]
PyStr(s) == [py |-> "str", v |-> s]
PyInt(n) == [py |-> "int", v |-> <<n>>]
PyTuple(xs) == [py |-> "tuple", v |-> xs]
PyTensor(xs) == [py |-> "tensor", v |-> xs]
PyNone == [py |-> "None", v |-> <<>>]
\* an exception instance, by the name of its class
PyExc(e) == [py |-> "exception", v |-> <<e>>]
\* a directory name
PyPath(p) == [py |-> "path", v |-> <<p>>]

\* isinstance(x, tuple) or isinstance(x, list)
IsTupleOrList(x) == x.py = "tuple"

\* "a", "A.", "b a": the texts of the corpora; transform is also given ""
CorpusTexts == { <<97>>, <<65, 46>>, <<98, 32, 97>> }
Texts == CorpusTexts \cup { <<>> }

\* the literal "." the text stages look up as padding token
DotToken == <<46>>
\* torchtext's specials '<unk>' and '<pad>'
UnkToken == <<60, 117, 110, 107, 62>>
PadToken == <<60, 112, 97, 100, 62>>

----------------------------------------------------------------------------
(* torchtext tokenizers: get_tokenizer('basic_english') and get_tokenizer(None) *)

RECURSIVE SplitFrom(_, _, _)
SplitFrom(s, cur, acc) ==
    IF s = <<>> THEN (IF cur = <<>> THEN acc ELSE Append(acc, cur))
    ELSE IF Head(s) = 32
         THEN SplitFrom(Tail(s), <<>>, IF cur = <<>> THEN acc ELSE Append(acc, cur))
         ELSE SplitFrom(Tail(s), Append(cur, Head(s)), acc)

\* str.split(): the maximal runs of non-blank characters
Split(s) == SplitFrom(s, <<>>, <<>>)

RECURSIVE BasicNormalize(_)
\* lower-case, and put blanks around a full stop
BasicNormalize(s) ==
    IF s = <<>> THEN <<>>
    ELSE LET c == Head(s)
         IN (IF c = 46 THEN <<32, 46, 32>>
             ELSE IF c \in 65..90 THEN <<c + 32>>
             ELSE <<c>>) \o BasicNormalize(Tail(s))

Tokenizers == {"basic_english", "split"}

\* tokenizer(x) for a str x
Tokenize(tk, s) == IF tk = "basic_english" THEN Split(BasicNormalize(s)) ELSE Split(s)

----------------------------------------------------------------------------
(* collections.Counter and torchtext.vocab.Vocab *)

EmptyCounter == [t \in {} |-> 0]

RECURSIVE CounterUpdate(_, _)
CounterUpdate(c, toks) ==
    IF toks = <<>> THEN c
    ELSE LET t == Head(toks)
             n == IF t \in DOMAIN c THEN c[t] + 1 ELSE 1
         IN CounterUpdate([u \in DOMAIN c \cup {t} |-> IF u = t THEN n ELSE c[u]],
                          Tail(toks))

RECURSIVE LexLess(_, _)
\* s < t for Python strings
LexLess(s, t) ==
    IF t = <<>> THEN FALSE
    ELSE IF s = <<>> THEN TRUE
    ELSE IF Head(s) # Head(t) THEN Head(s) < Head(t)
    ELSE LexLess(Tail(s), Tail(t))

RECURSIVE SortByFreq(_, _)
\* the words by decreasing frequency, alphabetically among equals
SortByFreq(c, S) ==
    IF S = {} THEN <<>>
    ELSE LET first == CHOOSE t \in S : \A u \in S \ {t} :
                          \/ c[t] > c[u]
                          \/ c[t] = c[u] /\ LexLess(t, u)
         IN <<first>> \o SortByFreq(c, S \ {first})

\* Vocab(counter): itos, the specials first; None is the empty list
NoVocab == <<>>
Vocab(c) == <<UnkToken, PadToken>> \o SortByFreq(c, DOMAIN c \ {UnkToken, PadToken})

\* vocabulary[token]: stoi, the unknown token's id for a token never seen
VocabGet(voc, t) ==
    IF \E i \in 1..Len(voc) : voc[i] = t
    THEN (CHOOSE i \in 1..Len(voc) : voc[i] = t /\ \A j \in 1..(i - 1) : voc[j] # t) - 1
    ELSE 0

\* [vocabulary[token] for token in tokens]
Ids(voc, toks) == [k \in 1..Len(toks) |-> VocabGet(voc, toks[k])]

----------------------------------------------------------------------------
(* Numbers.  A float is kept exact: a tensor entry is an integer followed  *)
(* by the operations applied to it; a mean is a reduced fraction <<n, d>>, *)
(* a standard deviation <<n, d, e>> stands for sqrt(n/d) + e * 1e-7, and   *)
(* d = 0 is NaN.                                                           *)

RECURSIVE GCD(_, _)
GCD(a, b) == IF b = 0 THEN a ELSE GCD(b, a % b)

Reduce(n, d) ==
    LET g == GCD(IF n < 0 THEN -n ELSE n, d)
    IN IF n = 0 THEN <<0, 1>> ELSE <<n \div g, d \div g>>

NaN == <<0, 0>>
NaNStd == <<0, 0, 0>>

Num(n) == [base |-> n, ops |-> <<>>]
ApplyOp(x, o) == [base |-> x.base, ops |-> Append(x.ops, o)]
NormOp(m, s) == [op |-> "norm", mean |-> m, std |-> s]
SubOneOp == [op |-> "sub1", mean |-> <<0, 1>>, std |-> <<1, 1, 0>>]

\* x - 1
SubOne(x) == IF x.ops = <<>> THEN Num(x.base - 1) ELSE ApplyOp(x, SubOneOp)

\* rows of the batches of shape (N, 2); an empty batch has the shape of NoRow
Rows == {<<0, 0>>, <<1, 0>>, <<1, 1>>}
NoRow == <<0, 0>>

RECURSIVE SumCol(_, _)
SumCol(rows, j) == IF rows = <<>> THEN 0 ELSE Head(rows)[j] + SumCol(Tail(rows), j)

RECURSIVE SumSqCol(_, _)
SumSqCol(rows, j) ==
    IF rows = <<>> THEN 0 ELSE Head(rows)[j] * Head(rows)[j] + SumSqCol(Tail(rows), j)

\* the number of columns of a batch of shape (N, Dim)
Columns(rows) == IF rows = <<>> THEN Len(NoRow) ELSE Len(Head(rows))

\* torch.mean(data.float(), 0, False)
TorchMean(rows) ==
    [j \in 1..Columns(rows) |->
        IF Len(rows) = 0 THEN NaN ELSE Reduce(SumCol(rows, j), Len(rows))]

\* torch.std(data.float(), 0, False): the unbiased estimator, NaN below two rows
TorchStd(rows) ==
    [j \in 1..Columns(rows) |->
        IF Len(rows) < 2 THEN NaNStd
        ELSE LET n == Len(rows)
                 q == Reduce(n * SumSqCol(rows, j) - SumCol(rows, j) * SumCol(rows, j),
                             n * (n - 1))
             IN <<q[1], q[2], 0>>]

\* a test that looks at the fitted part of the entry only
StdPositiveFitted(s) == s[2] # 0 /\ s[1] > 0

\* stddev entry > 0 (False for NaN)
StdPositive(s) == s[2] # 0 /\ (s[1] > 0 \/ s[3] > 0)

\* stddev entry + 1e-7 (NaN stays NaN)
AddEpsilon(s) == IF s[2] = 0 THEN s ELSE <<s[1], s[2], s[3] + 1>>

----------------------------------------------------------------------------
(* Objects and files *)

Classes == {"Normalisation", "PreprocessTextData", "PreprocessTextLabel",
            "PreprocessTextTranslation", "PreprocessTextQA", "PreprocessTextQATarget"}

\* self.<k> = v
Put(self, k, v) == [a \in DOMAIN self \cup {k} |-> IF a = k THEN v ELSE self[a]]

Has(self, k) == k \in DOMAIN self

Returned(self, fs, v, ld, w) ==
    [self |-> self, files |-> fs, kind |-> "return", val |-> v, load |-> ld, warn |-> w]
Raised(self, fs, e, ld, w) ==
    [self |-> self, files |-> fs, kind |-> "raise", val |-> PyExc(e), load |-> ld, warn |-> w]

\* the directory the stages save in, and with it a directory nothing is saved in
Paths == {"."}
Dirs == Paths \cup {"empty"}
NoFiles == [p \in Dirs |-> [n \in {} |-> PyNone]]

\* os.path.join(path, self.__class__.__name__ + ".json"), inside directory path
FileName(c) == c \o ".json"

\* jsonpickle.encode(self) and jsonpickle.decode: the class and every attribute
Encode(c, self) == [py_object |-> c, py_state |-> self]
Decode(e) == e.py_state

\* json.dump / json.load of the encoded string
JsonDump(x) == [json |-> x]
JsonLoad(f) == f.json

\* AbstractPreprocessing.save_pretrained: the files after the call
SavePretrained(c, self, fs, path) ==
    [fs EXCEPT ![path] = Put(fs[path], FileName(c), JsonDump(Encode(c, self)))]

\* a load_pretrained that says nothing when the file is missing
LoadPretrainedSilent(c, self, fs, path) ==
    IF FileName(c) \in DOMAIN fs[path]
    THEN [self |-> self, local |-> Decode(JsonLoad(fs[path][FileName(c)])), warn |-> {}]
    ELSE [self |-> self, local |-> self, warn |-> {}]

\* AbstractPreprocessing.load_pretrained: the decoded object is bound to the
\* local name self only; the caller's object is the one in field self
LoadPretrained(c, self, fs, path) ==
    IF FileName(c) \in DOMAIN fs[path]
    THEN [self |-> self, local |-> Decode(JsonLoad(fs[path][FileName(c)])), warn |-> {}]
    ELSE [self |-> self, local |-> self, warn |-> {"file does not exist"}]

\* a transform that never looks for the persisted file
LoadIfUnfittedNever(c, self, fs) == [self |-> self, load |-> FALSE, warn |-> {}]

\* "if not self.is_fitted: self.load_pretrained('.')" at the head of a transform
LoadIfUnfitted(c, self, fs) ==
    IF ~self.is_fitted
    THEN [self |-> LoadPretrained(c, self, fs, ".").self, load |-> TRUE,
          warn |-> LoadPretrained(c, self, fs, ".").warn]
    ELSE [self |-> self, load |-> FALSE, warn |-> {}]

----------------------------------------------------------------------------
(* Normalisation *)

NewNormalisation == [is_fitted |-> FALSE]

\* Normalisation.fit_to_data on a tensor of shape (N, Dim), given as its rows
NormalisationFit(self, fs, rows) ==
    LET s1 == Put(self, "mean", TorchMean(rows))
        s2 == Put(s1, "stddev", TorchStd(rows))
        s3 == Put(s2, "is_fitted", TRUE)
    IN Returned(s3, SavePretrained("Normalisation", s3, fs, "."), PyNone, FALSE, {})

\* index of entry j of a vector broadcast to a longer one
Bcast(v, j) == IF Len(v) = 1 THEN v[1] ELSE v[j]

\* a running length that is never replaced
MaxFirst(a, b) == a

\* a running length that adds instead of keeping the larger
MaxSum(a, b) == a + b

\* max(a, b)
Max(a, b) == IF a >= b THEN a ELSE b

\* Normalisation.transform
NormalisationTransform(self, fs, datum) ==
    LET l == LoadIfUnfitted("Normalisation", self, fs)
        s0 == l.self
    IN IF ~Has(s0, "stddev") THEN Raised(s0, fs, "AttributeError", l.load, l.warn)
       ELSE LET zero == \E j \in 1..Len(s0.stddev) : ~StdPositive(s0.stddev[j])
                s1 == IF zero
                      THEN Put(s0, "stddev",
                               [j \in 1..Len(s0.stddev) |-> AddEpsilon(s0.stddev[j])])
                      ELSE s0
                w == IF zero THEN l.warn \cup {"stddev contains zeros"} ELSE l.warn
            IN IF datum.py \notin {"tensor", "int"}
               THEN Raised(s1, fs, "TypeError", l.load, w)
               ELSE IF Len(datum.v) # Len(s1.mean) /\ Len(datum.v) # 1 /\ Len(s1.mean) # 1
               THEN Raised(s1, fs, "RuntimeError", l.load, w)
               ELSE LET n == Max(Len(datum.v), Len(s1.mean))
                        x == IF datum.py = "int" THEN <<Num(datum.v[1])>> ELSE datum.v
                    IN Returned(s1, fs,
                           PyTensor([j \in 1..n |->
                               ApplyOp(Bcast(x, j),
                                       NormOp(Bcast(s1.mean, j), Bcast(s1.stddev, j)))]),
                           l.load, w)

----------------------------------------------------------------------------
(* The text stages *)

\* the "unwrap to the first element" of fit and transform
Unwrap(x) == IF IsTupleOrList(x) /\ Len(x.v) > 0 THEN x.v[1] ELSE x

\* torch.cat([processed, pad_item * torch.ones(MAX_LENGTH - len(processed))]);
\* a negative size makes torch.ones raise
CanPad(ids, maxlen) == maxlen - Len(ids) >= 0
Padded(ids, pad, maxlen) ==
    PyTensor([k \in 1..maxlen |-> IF k <= Len(ids) THEN Num(ids[k]) ELSE Num(pad)])

NewPreprocessTextData(tk, voc) ==
    [tokenizer |-> tk, vocabulary |-> voc, MAX_LENGTH |-> 0, is_fitted |-> FALSE]

RECURSIVE TextDataLoop(_, _, _, _)
\* the loop of PreprocessTextData.fit_to_data: <<counter, MAX_LENGTH>>
TextDataLoop(tk, data, counter, maxlen) ==
    IF data = <<>> THEN <<counter, maxlen>>
    ELSE LET text == Unwrap(Head(data).v[2])
             toks == Tokenize(tk, text.v)
         IN TextDataLoop(tk, Tail(data), CounterUpdate(counter, toks), Max(maxlen, Len(toks)))

\* PreprocessTextData.fit_to_data
TextDataFit(self, fs, data) ==
    LET r == TextDataLoop(self.tokenizer, data, EmptyCounter, self.MAX_LENGTH)
        s1 == Put(self, "MAX_LENGTH", r[2])
        s2 == IF s1.vocabulary = NoVocab THEN Put(s1, "vocabulary", Vocab(r[1])) ELSE s1
        s3 == Put(s2, "is_fitted", TRUE)
    IN Returned(s3, SavePretrained("PreprocessTextData", s3, fs, "."), PyNone, FALSE, {})

\* PreprocessTextData.transform
TextDataTransform(self, fs, datum) ==
    LET l == LoadIfUnfitted("PreprocessTextData", self, fs)
        s0 == l.self
        text == Unwrap(datum)
    IN IF s0.vocabulary = NoVocab THEN Raised(s0, fs, "TypeError", l.load, l.warn)
       ELSE IF text.py # "str" THEN Raised(s0, fs, "AttributeError", l.load, l.warn)
       ELSE LET ids == Ids(s0.vocabulary, Tokenize(s0.tokenizer, text.v))
                pad_item == VocabGet(s0.vocabulary, DotToken)
            IN IF ~CanPad(ids, s0.MAX_LENGTH)
               THEN Raised(s0, fs, "RuntimeError", l.load, l.warn)
               ELSE Returned(s0, fs, Padded(ids, pad_item, s0.MAX_LENGTH), l.load, l.warn)

----------------------------------------------------------------------------
NewPreprocessTextLabel == [a \in {} |-> PyNone]

\* PreprocessTextLabel.fit_to_data: pass
TextLabelFit(self, fs, data) == Returned(self, fs, PyNone, FALSE, {})

\* label_pipeline: torch.tensor(x, dtype=torch.long) - 1, or the exception it raises
LabelPipeline(x) ==
    IF x.py \in {"int", "tensor"} THEN [kind |-> "return", val |-> PyTensor([k \in 1..Len(x.v) |->
                                           SubOne(IF x.py = "int" THEN Num(x.v[k]) ELSE x.v[k])])]
    ELSE IF x.py = "tuple" /\ \A k \in 1..Len(x.v) : x.v[k].py = "int"
    THEN [kind |-> "return", val |-> PyTensor([k \in 1..Len(x.v) |-> Num(x.v[k].v[1] - 1)])]
    ELSE IF x.py = "tuple" /\ \E k \in 1..Len(x.v) : x.v[k].py = "str"
    THEN [kind |-> "raise", val |-> PyExc("ValueError")]
    ELSE [kind |-> "raise", val |-> PyExc("TypeError")]

\* PreprocessTextLabel.transform
TextLabelTransform(self, fs, datum) ==
    LET first == LabelPipeline(datum)
        label == IF first.kind = "raise" /\ first.val = PyExc("TypeError")
                 THEN Unwrap(datum) ELSE datum
        out == LabelPipeline(label)
    IN IF first.kind = "raise" /\ first.val # PyExc("TypeError")
       THEN Raised(self, fs, first.val.v[1], FALSE, {})
       ELSE IF out.kind = "raise" THEN Raised(self, fs, out.val.v[1], FALSE, {})
       ELSE Returned(self, fs, out.val, FALSE, {})

----------------------------------------------------------------------------
NewPreprocessTextTranslation(voc, voc_target, tk, tk_target) ==
    [tokenizer |-> tk, tokenizer_target |-> tk_target, vocabulary |-> voc,
     vocabulary_target |-> voc_target, MAX_LENGTH |-> 0, is_fitted |-> FALSE]

RECURSIVE TranslationLoop(_, _, _, _, _, _)
\* the loop of PreprocessTextTranslation.fit_to_data: <<counter, counter_target, MAX_LENGTH>>
TranslationLoop(tk, tk_target, data, counter, counter_target, maxlen) ==
    IF data = <<>> THEN <<counter, counter_target, maxlen>>
    ELSE LET toks == Tokenize(tk, Head(data).v[1].v)
             toks_target == Tokenize(tk_target, Head(data).v[2].v)
         IN TranslationLoop(tk, tk_target, Tail(data), CounterUpdate(counter, toks),
                            CounterUpdate(counter_target, toks_target),
                            Max(Max(maxlen, Len(toks)), Len(toks_target)))

\* PreprocessTextTranslation.fit_to_data
TranslationFit(self, fs, data) ==
    LET r == TranslationLoop(self.tokenizer, self.tokenizer_target, data,
                             EmptyCounter, EmptyCounter, self.MAX_LENGTH)
        s1 == Put(self, "MAX_LENGTH", r[3])
        s2 == IF s1.vocabulary = NoVocab THEN Put(s1, "vocabulary", Vocab(r[1])) ELSE s1
        s3 == IF s2.vocabulary_target = NoVocab
              THEN Put(s2, "vocabulary_target", Vocab(r[2])) ELSE s2
        s4 == Put(s3, "is_fitted", TRUE)
    IN Returned(s4, SavePretrained("PreprocessTextTranslation", s4, fs, "."),
                PyNone, FALSE, {})

\* a tuple or list whose first n elements are str
StrTuple(datum, n) ==
    /\ datum.py = "tuple"
    /\ Len(datum.v) >= n
    /\ \A k \in 1..n : datum.v[k].py = "str"

\* PreprocessTextTranslation.transform: text_pipeline_target is defined and
\* never called, both texts go through text_pipeline
TranslationTransform(self, fs, datum) ==
    LET l == LoadIfUnfitted("PreprocessTextTranslation", self, fs)
        s0 == l.self
    IN IF s0.vocabulary = NoVocab \/ s0.vocabulary_target = NoVocab
       THEN Raised(s0, fs, "TypeError", l.load, l.warn)
       ELSE IF ~StrTuple(datum, 2) THEN Raised(s0, fs, "TypeError", l.load, l.warn)
       ELSE LET pad_item == VocabGet(s0.vocabulary, DotToken)
                pad_item_target == VocabGet(s0.vocabulary_target, DotToken)
                processed_text == Ids(s0.vocabulary, Tokenize(s0.tokenizer, datum.v[1].v))
                processed_text_target ==
                    Ids(s0.vocabulary, Tokenize(s0.tokenizer, datum.v[2].v))
            IN IF ~CanPad(processed_text, s0.MAX_LENGTH)
                  \/ ~CanPad(processed_text_target, s0.MAX_LENGTH)
               THEN Raised(s0, fs, "RuntimeError", l.load, l.warn)
               ELSE Returned(s0, fs,
                        PyTuple(<<Padded(processed_text, pad_item, s0.MAX_LENGTH),
                                  Padded(processed_text_target, pad_item_target,
                                         s0.MAX_LENGTH)>>),
                        l.load, l.warn)

----------------------------------------------------------------------------
NewPreprocessTextQA(voc, tk) ==
    [tokenizer |-> tk, vocabulary |-> voc, MAX_LENGTH |-> 0, is_fitted |-> FALSE]

RECURSIVE QALoop(_, _, _, _)
\* the loop of PreprocessTextQA.fit_to_data: <<counter, MAX_LENGTH>>
QALoop(tk, data, counter, maxlen) ==
    IF data = <<>> THEN <<counter, maxlen>>
    ELSE LET context == Tokenize(tk, Unwrap(Head(data).v[1]).v)
             question == Tokenize(tk, Unwrap(Head(data).v[2]).v)
         IN QALoop(tk, Tail(data), CounterUpdate(CounterUpdate(counter, context), question),
                   Max(Max(maxlen, Len(context)), Len(question)))

\* the value the last line but one of PreprocessTextQA.fit_to_data gives is_fitted
QAFittedFlag == FALSE

\* PreprocessTextQA.fit_to_data
QAFit(self, fs, data) ==
    LET r == QALoop(self.tokenizer, data, EmptyCounter, self.MAX_LENGTH)
        s1 == Put(self, "MAX_LENGTH", r[2])
        s2 == IF s1.vocabulary = NoVocab THEN Put(s1, "vocabulary", Vocab(r[1])) ELSE s1
        s3 == Put(s2, "pad_item", VocabGet(s2.vocabulary, DotToken))
        s4 == Put(s3, "is_fitted", QAFittedFlag)
    IN Returned(s4, SavePretrained("PreprocessTextQA", s4, fs, "."), PyNone, FALSE, {})

\* PreprocessTextQA.transform
QATransform(self, fs, datum) ==
    LET l == LoadIfUnfitted("PreprocessTextQA", self, fs)
        s0 == l.self
    IN IF ~StrTuple(datum, 2) THEN Raised(s0, fs, "TypeError", l.load, l.warn)
       ELSE LET context == Tokenize(s0.tokenizer, datum.v[1].v)
                question == Tokenize(s0.tokenizer, datum.v[2].v)
            IN IF context # <<>> /\ s0.vocabulary = NoVocab
               THEN Raised(s0, fs, "TypeError", l.load, l.warn)
               ELSE IF ~Has(s0, "pad_item")
               THEN Raised(s0, fs, "AttributeError", l.load, l.warn)
               ELSE IF ~CanPad(context, s0.MAX_LENGTH)
               THEN Raised(s0, fs, "RuntimeError", l.load, l.warn)
               ELSE IF question # <<>> /\ s0.vocabulary = NoVocab
               THEN Raised(s0, fs, "TypeError", l.load, l.warn)
               ELSE IF ~CanPad(question, s0.MAX_LENGTH)
               THEN Raised(s0, fs, "RuntimeError", l.load, l.warn)
               ELSE Returned(s0, fs,
                        PyTuple(<<Padded(Ids(s0.vocabulary, context), s0.pad_item,
                                         s0.MAX_LENGTH),
                                  Padded(Ids(s0.vocabulary, question), s0.pad_item,
                                         s0.MAX_LENGTH)>>),
                        l.load, l.warn)

----------------------------------------------------------------------------
NewPreprocessTextQATarget(tk) == [tokenizer |-> tk, MAX_LENGTH |-> 0, is_fitted |-> FALSE]

\* PreprocessTextQATarget.fit_to_data: pass
QATargetFit(self, fs, data) == Returned(self, fs, PyNone, FALSE, {})

\* the whole of s, whatever n
PrefixWhole(s, n) == s

\* s[:n]
Prefix(s, n) == SubSeq(s, 1, IF n < Len(s) THEN n ELSE Len(s))

\* a (context, question, [answer], [init_position]) sample
QADatum(datum) ==
    /\ datum.py = "tuple" /\ Len(datum.v) >= 4
    /\ datum.v[1].py = "str"
    /\ datum.v[3].py = "tuple" /\ Len(datum.v[3].v) > 0 /\ datum.v[3].v[1].py = "str"
    /\ datum.v[4].py = "tuple" /\ Len(datum.v[4].v) > 0 /\ datum.v[4].v[1].py = "int"

\* PreprocessTextQATarget.transform
QATargetTransform(self, fs, datum) ==
    IF ~QADatum(datum) THEN Raised(self, fs, "TypeError", FALSE, {})
    ELSE LET pos_init_char == datum.v[4].v[1].v[1]
             pos_init == Len(Tokenize(self.tokenizer, Prefix(datum.v[1].v, pos_init_char)))
             pos_end == pos_init + Len(Tokenize(self.tokenizer, datum.v[3].v[1].v))
         IN Returned(self, fs, PyTuple(<<PyTensor(<<Num(pos_init)>>),
                                         PyTensor(<<Num(pos_end)>>)>>), FALSE, {})

----------------------------------------------------------------------------
(* Dispatch on the class of the object *)

\* preproc.fit_to_data(data)
FitToData(c, self, fs, data) ==
    CASE c = "Normalisation" -> NormalisationFit(self, fs, data)
      [] c = "PreprocessTextData" -> TextDataFit(self, fs, data)
      [] c = "PreprocessTextLabel" -> TextLabelFit(self, fs, data)
      [] c = "PreprocessTextTranslation" -> TranslationFit(self, fs, data)
      [] c = "PreprocessTextQA" -> QAFit(self, fs, data)
      [] c = "PreprocessTextQATarget" -> QATargetFit(self, fs, data)

\* preproc.transform(datum)
Transform(c, self, fs, datum) ==
    CASE c = "Normalisation" -> NormalisationTransform(self, fs, datum)
      [] c = "PreprocessTextData" -> TextDataTransform(self, fs, datum)
      [] c = "PreprocessTextLabel" -> TextLabelTransform(self, fs, datum)
      [] c = "PreprocessTextTranslation" -> TranslationTransform(self, fs, datum)
      [] c = "PreprocessTextQA" -> QATransform(self, fs, datum)
      [] c = "PreprocessTextQATarget" -> QATargetTransform(self, fs, datum)

----------------------------------------------------------------------------
(* The datasets and samples the callers hand in *)

SeqsUpTo(S, n) == UNION {[1..k -> S] : k \in 0..n}

NormalisationData == SeqsUpTo(Rows, MaxData)
NormalisationSamples == {PyTensor([j \in 1..Len(r) |-> Num(r[j])]) : r \in Rows}

\* (label, text) pairs; a loader with batches of one wraps every text in a list
Labels == {1, 2}
TextPairs(wrapped) ==
    {PyTuple(<<PyInt(1), IF wrapped THEN PyTuple(<<PyStr(t)>>) ELSE PyStr(t)>>) :
        t \in CorpusTexts}
TextData == UNION {SeqsUpTo(TextPairs(w), MaxData) : w \in BOOLEAN}
TextSamples == {PyStr(t) : t \in Texts} \cup {PyTuple(<<PyStr(t)>>) : t \in Texts}

LabelSamples == {PyInt(l) : l \in Labels} \cup {PyTuple(<<PyInt(l)>>) : l \in Labels}

\* (source, target) pairs
\* (source, target): ("a", "A."), ("A.", "b a"), ("b a", "a"); transform is also
\* given ("", "a")
TranslationPairs ==
    { <<<<97>>, <<65, 46>>>>, <<<<65, 46>>, <<98, 32, 97>>>>, <<<<98, 32, 97>>, <<97>>>> }
TranslationCorpus == {PyTuple(<<PyStr(x[1]), PyStr(x[2])>>) : x \in TranslationPairs}
TranslationSamples == TranslationCorpus \cup {PyTuple(<<PyStr(<<>>), PyStr(<<97>>)>>)}
TranslationData == SeqsUpTo(TranslationCorpus, MaxData)

\* (context, question, [answer], [init_position]) with the answer a piece of the context
\* the spans <<offset, length>> of c: every piece that is not empty, all of c when it is
Spans(c) ==
    IF c = <<>> THEN {<<0, 0>>}
    ELSE {x \in (0..Len(c)) \X (1..Len(c)) : x[1] + x[2] <= Len(c)}
\* (context, question): ("b a", "a"), ("A.", "b a"), ("a", "A."), and ("", "a")
\* for transform only
QAPairs ==
    { <<<<98, 32, 97>>, <<97>>>>, <<<<65, 46>>, <<98, 32, 97>>>>, <<<<97>>, <<65, 46>>>>,
      <<<<>>, <<97>>>> }
QASample(c, q, sp) ==
    PyTuple(<<PyStr(c), PyStr(q), PyTuple(<<PyStr(SubSeq(c, sp[1] + 1, sp[1] + sp[2]))>>),
              PyTuple(<<PyInt(sp[1])>>)>>)
QASamples == UNION {{QASample(x[1], x[2], sp) : sp \in Spans(x[1])} : x \in QAPairs}
\* the corpus holds the samples whose answer is the whole context
QACorpus == {x \in QASamples : x.v[3].v[1].v = x.v[1].v /\ x.v[1].v # <<>>}
QAData == SeqsUpTo(QACorpus, MaxData)

Datasets(c) ==
    CASE c = "Normalisation" -> NormalisationData
      [] c = "PreprocessTextData" -> TextData
      [] c = "PreprocessTextLabel" -> TextData
      [] c = "PreprocessTextTranslation" -> TranslationData
      [] c = "PreprocessTextQA" -> QAData
      [] c = "PreprocessTextQATarget" -> QAData

Samples(c) ==
    CASE c = "Normalisation" -> NormalisationSamples
      [] c = "PreprocessTextData" -> TextSamples
      [] c = "PreprocessTextLabel" -> LabelSamples
      [] c = "PreprocessTextTranslation" -> TranslationSamples
      [] c = "PreprocessTextQA" -> QASamples
      [] c = "PreprocessTextQATarget" -> QASamples

\* a vocabulary built beforehand and handed to the constructor: "a", "."
PrebuiltVocab == <<UnkToken, PadToken, <<97>>, <<46>>>>
Vocabularies == {NoVocab, PrebuiltVocab}

\* the objects the constructors of class c can return
New(c) ==
    CASE c = "Normalisation" -> {NewNormalisation}
      [] c = "PreprocessTextData" ->
            {NewPreprocessTextData(tk, voc) : tk \in Tokenizers, voc \in Vocabularies}
      [] c = "PreprocessTextLabel" -> {NewPreprocessTextLabel}
      [] c = "PreprocessTextTranslation" ->
            {NewPreprocessTextTranslation(voc, voc, "basic_english", tk) :
                voc \in Vocabularies, tk \in Tokenizers}
      [] c = "PreprocessTextQA" ->
            {NewPreprocessTextQA(voc, tk) : tk \in Tokenizers, voc \in Vocabularies}
      [] c = "PreprocessTextQATarget" -> {NewPreprocessTextQATarget(tk) : tk \in Tokenizers}

----------------------------------------------------------------------------
(* The stages: two instances of one class sharing the directories.        *)
(* Instance 1 is fitted by its owner; instance 2 is the stage of a process *)
(* that only loads and transforms.                                         *)

Inst == {1, 2}

\* no file open: save_pretrained is not running
NoHandle == [name |-> "", text |-> <<>>]
NoHandles == [i \in Inst |-> NoHandle]
Fitters == {1}

\* flag: is_fitted as the call found it ("absent": the object has no such attribute)
\* pipe: the pipeline called, inst: the stage called (0 and "" when it is the other)
NoCall == [op |-> "none", inst |-> 0, pipe |-> "", arg |-> PyNone, flag |-> "absent"]
Flag(self) ==
    IF ~Has(self, "is_fitted") THEN "absent" ELSE IF self.is_fitted THEN "true" ELSE "false"
\* steps: the stages a pipeline called, in the order of the calls
NoRet == [kind |-> "none", val |-> PyNone, load |-> FALSE, warn |-> {}, steps |-> <<>>]
Outcome(r) == [NoRet EXCEPT !.kind = r.kind, !.val = r.val, !.load = r.load, !.warn = r.warn]

Init ==
    /\ \E c \in Classes : \E s \in New(c) :
          /\ cls = [i \in Inst |-> c]
          /\ stage = [i \in Inst |-> s]
          /\ made = [i \in Inst |-> s]
    /\ files = NoFiles
    /\ call = NoCall
    /\ ret = NoRet
    /\ nfit = [i \in Inst |-> 0]
    /\ pipes = [n \in {} |-> <<>>]
    /\ handles = NoHandles

\* stage i .fit_to_data(data)
Fit(i, data) ==
    LET r == FitToData(cls[i], stage[i], files, data)
    IN /\ stage' = [stage EXCEPT ![i] = r.self]
       /\ files' = r.files
       /\ call' = [NoCall EXCEPT !.op = "fit_to_data", !.inst = i, !.flag = Flag(stage[i])]
       /\ ret' = Outcome(r)
       /\ nfit' = [nfit EXCEPT ![i] = IF @ < 2 THEN @ + 1 ELSE @]
       /\ UNCHANGED <<cls, made, pipes, handles>>

\* stage i .transform(datum)
DoTransform(i, datum) ==
    LET r == Transform(cls[i], stage[i], files, datum)
    IN /\ stage' = [stage EXCEPT ![i] = r.self]
       /\ files' = r.files
       /\ call' = [NoCall EXCEPT !.op = "transform", !.inst = i, !.arg = datum,
                                !.flag = Flag(stage[i])]
       /\ ret' = Outcome(r)
       /\ UNCHANGED <<cls, nfit, made, pipes, handles>>

\* stage i .save_pretrained(path)
Save(i, path) ==
    /\ files' = SavePretrained(cls[i], stage[i], files, path)
    /\ call' = [NoCall EXCEPT !.op = "save_pretrained", !.inst = i, !.arg = PyPath(path),
                             !.flag = Flag(stage[i])]
    /\ ret' = [NoRet EXCEPT !.kind = "return"]
    /\ UNCHANGED <<cls, stage, nfit, made, pipes, handles>>

\* stage i .load_pretrained(path)
Load(i, path) ==
    LET r == LoadPretrained(cls[i], stage[i], files, path)
    IN /\ stage' = [stage EXCEPT ![i] = r.self]
       /\ call' = [NoCall EXCEPT !.op = "load_pretrained", !.inst = i, !.arg = PyPath(path),
                               !.flag = Flag(stage[i])]
       /\ ret' = [NoRet EXCEPT !.kind = "return", !.load = TRUE, !.warn = r.warn]
       /\ UNCHANGED <<cls, files, nfit, made, pipes, handles>>

Next ==
    \/ \E i \in Fitters : \E data \in Datasets(cls[i]) : Fit(i, data)
    \/ \E i \in Inst : \E datum \in Samples(cls[i]) : DoTransform(i, datum)
    \/ \E i \in Inst : \E path \in Paths : Save(i, path)
    \/ \E i \in Inst : \E path \in Dirs : Load(i, path)

Spec == Init /\ [][Next]_vars

----------------------------------------------------------------------------
(* PreprocessingPipeline: two stages, the pipelines A and B made of them,  *)
(* and P = A + B once it has been computed.                                *)

\* longest list_of_cls a pipeline is constructed with
MaxPipe == 2

\* PreprocessingPipeline.__len__ and __getitem__ (index from 0)
PipelineLen(list) == Len(list)
PipelineGetItem(list, index) == list[index + 1]

\* a concatenation that forgets the right operand
PipelineAddLeft(list, other) == list

\* a concatenation that puts the right operand first
PipelineAddSwapped(list, other) == other \o list

\* PreprocessingPipeline.__add__: the list_of_cls of the new pipeline
PipelineAdd(list, other) == list \o other

RECURSIVE PipelineTransform(_, _, _, _)
\* PreprocessingPipeline.transform over the objects st: each stage is given what
\* the stage before it returned, an exception ends the loop
PipelineTransform(list, st, fs, batch) ==
    IF list = <<>>
    THEN [stage |-> st, files |-> fs, kind |-> "return", val |-> batch, load |-> FALSE,
          warn |-> {}, steps |-> <<>>]
    ELSE LET i == Head(list)[1]
             r == Transform(cls[i], st[i], fs, batch)
             st1 == [st EXCEPT ![i] = r.self]
         IN IF r.kind = "raise"
            THEN [stage |-> st1, files |-> r.files, kind |-> "raise", val |-> r.val,
                  load |-> r.load, warn |-> r.warn, steps |-> <<i>>]
            ELSE LET rest == PipelineTransform(Tail(list), st1, r.files, r.val)
                 IN [rest EXCEPT !.steps = <<i>> \o @, !.load = @ \/ r.load,
                                 !.warn = @ \cup r.warn]

\* the classes of the two stages the pipelines are made of
PipeClasses == { <<"Normalisation", "PreprocessTextLabel">>,
                 <<"PreprocessTextData", "PreprocessTextLabel">> }
DataTypes == {"TransformingDataset"}
Pipelines == SeqsUpTo(Inst \X DataTypes, MaxPipe)

\* the object a constructor called without arguments returns
DefaultNew(c) ==
    CASE c = "Normalisation" -> NewNormalisation
      [] c = "PreprocessTextData" -> NewPreprocessTextData("basic_english", NoVocab)
      [] c = "PreprocessTextLabel" -> NewPreprocessTextLabel

\* the corpora the stages of a pipeline are fitted on: a batch with a constant
\* column and one without; [("1", "a")] and [("1", "A."), ("1", "b a")]
PipeData(c) ==
    CASE c = "Normalisation" -> { <<<<0, 0>>, <<1, 0>>>>, <<<<0, 0>>, <<1, 1>>>> }
      [] c = "PreprocessTextData" ->
            { <<PyTuple(<<PyInt(1), PyStr(<<97>>)>>)>>,
              <<PyTuple(<<PyInt(1), PyStr(<<65, 46>>)>>),
                PyTuple(<<PyInt(1), PyStr(<<98, 32, 97>>)>>)>> }
      [] OTHER -> { <<>> }

\* the samples handed to a pipeline: the row (1, 0), the text "b a", the label 2
PipeSamples ==
    { PyTensor(<<Num(1), Num(0)>>), PyStr(<<98, 32, 97>>), PyInt(2) }

InitPipe ==
    /\ cls \in PipeClasses
    /\ stage = [i \in Inst |-> DefaultNew(cls[i])]
    /\ made = stage
    /\ files = NoFiles
    /\ call = NoCall
    /\ ret = NoRet
    /\ nfit = [i \in Inst |-> 0]
    /\ handles = NoHandles
    /\ \E a \in Pipelines : \E b \in Pipelines :
          pipes = [n \in {"A", "B"} |-> IF n = "A" THEN a ELSE b]

\* a marker class that hands back the dataset it is given
WrapNone(dt, data, i) == data

\* data_type_class(data, preproc_cls): the dataset of class dt made of a dataset
\* and the stage i it was fitted to
Wrap(dt, data, i) == [py |-> "dataset", type |-> dt, data |-> data, preproc |-> i]

RECURSIVE PipelineFit(_, _, _, _)
\* the rest of the loop of PreprocessingPipeline.fit_to_data once fit_to_data of
\* stage i, the first of list, has ended as r
PipelineFitNext(list, st, data, i, r) ==
    IF r.kind = "raise"
    THEN [stage |-> [st EXCEPT ![i] = r.self], files |-> r.files, kind |-> "raise",
          val |-> r.val, load |-> FALSE, warn |-> {},
          steps |-> <<[stage |-> i, data |-> data]>>]
    ELSE [PipelineFit(Tail(list), [st EXCEPT ![i] = r.self], r.files,
                      Wrap(Head(list)[2], data, i))
             EXCEPT !.steps = <<[stage |-> i, data |-> data]>> \o @]

\* PreprocessingPipeline.fit_to_data over the objects st; steps: the fit_to_data
\* calls made, each with the stage called and the dataset it was given
PipelineFit(list, st, fs, data) ==
    IF list = <<>>
    THEN [stage |-> st, files |-> fs, kind |-> "return", val |-> PyNone, load |-> FALSE,
          warn |-> {}, steps |-> <<>>]
    ELSE PipelineFitNext(list, st, data, Head(list)[1],
                         FitToData(cls[Head(list)[1]], st[Head(list)[1]], fs, data))

\* the pipelines fit_to_data is called on: past the first stage, every stage is a
\* PreprocessTextLabel, whose fit_to_data never reads the dataset the marker
\* class made
Fittable(list) == \A k \in 2..Len(list) : cls[list[k][1]] = "PreprocessTextLabel"

\* the datasets a pipeline is fitted on: those of its first stage
PipelineData(list) == IF list = <<>> THEN { <<>> } ELSE PipeData(cls[list[1][1]])

\* the number of fit_to_data calls stage i has seen after a fit of list, 2 for more
Fits(list, i, n) ==
    LET k == n + Cardinality({j \in 1..Len(list) : list[j][1] = i})
    IN IF k < 2 THEN k ELSE 2

\* the state pipeline n .fit_to_data(data) leaves when it ends as r
PipeFitted(n, data, r) ==
    /\ stage' = r.stage
    /\ files' = r.files
    /\ call' = [NoCall EXCEPT !.op = "fit_to_data", !.pipe = n, !.arg = data]
    /\ ret' = [Outcome(r) EXCEPT !.steps = r.steps]
    /\ nfit' = [i \in Inst |-> Fits(pipes[n], i, nfit[i])]
    /\ UNCHANGED <<cls, made, pipes, handles>>

\* pipeline n .fit_to_data(data), its stages not fitted before
PipeFit(n, data) ==
    /\ Fittable(pipes[n])
    /\ \A k \in 1..Len(pipes[n]) : nfit[pipes[n][k][1]] = 0
    /\ PipeFitted(n, data, PipelineFit(pipes[n], stage, files, data))

\* the one fit_to_data of stage i
FitOnce(i, data) == nfit[i] = 0 /\ Fit(i, data)

\* P = A + B
Add ==
    /\ "P" \notin DOMAIN pipes
    /\ pipes' = Put(pipes, "P", PipelineAdd(pipes["A"], pipes["B"]))
    /\ call' = [NoCall EXCEPT !.op = "__add__", !.pipe = "A"]
    /\ ret' = [NoRet EXCEPT !.kind = "return"]
    /\ UNCHANGED <<cls, stage, files, nfit, made, handles>>

\* pipeline n .transform(batch)
PipeTransform(n, batch) ==
    LET r == PipelineTransform(pipes[n], stage, files, batch)
    IN /\ stage' = r.stage
       /\ files' = r.files
       /\ call' = [NoCall EXCEPT !.op = "transform", !.pipe = n, !.arg = batch]
       /\ ret' = [Outcome(r) EXCEPT !.steps = r.steps]
       /\ UNCHANGED <<cls, nfit, made, pipes, handles>>

NextPipe ==
    \/ \E i \in Inst : \E data \in PipeData(cls[i]) : FitOnce(i, data)
    \/ \E n \in DOMAIN pipes : \E data \in PipelineData(pipes[n]) : PipeFit(n, data)
    \/ Add
    \/ \E n \in DOMAIN pipes : \E batch \in PipeSamples : PipeTransform(n, batch)

SpecPipe == InitPipe /\ [][NextPipe]_vars

----------------------------------------------------------------------------
(* save_pretrained step by step: two instances fit at the same time in one  *)
(* directory.  open(..., "w") empties the file; the text json.dump puts in  *)
(* the handle's buffer is written from the start of the file when the with  *)
(* block closes the handle.                                                 *)

\* the classes of the two instances
SaveClasses == {"Normalisation", "PreprocessTextData"}

\* the length of the text of an object: it grows with every attribute and with
\* every entry of a vocabulary
SizeOf(self) ==
    Cardinality(DOMAIN self)
        + (IF Has(self, "vocabulary") THEN Len(self.vocabulary) ELSE 0)

\* the characters json.dump writes for jsonpickle.encode(self)
Text(c, self) == [k \in 1..SizeOf(self) |-> [of |-> Encode(c, self), at |-> k]]

\* a write of text at the start of a file: what lies beyond the text stays
Overwrite(file, text) == text \o SubSeq(file, Len(text) + 1, Len(file))

\* fit_to_data ends in save_pretrained (PreprocessTextLabel's does not)
Saves(c) == c \in {"Normalisation", "PreprocessTextData", "PreprocessTextTranslation",
                   "PreprocessTextQA"}

InitSave ==
    /\ cls \in [Inst -> SaveClasses]
    /\ stage = [i \in Inst |-> DefaultNew(cls[i])]
    /\ made = stage
    /\ files = NoFiles
    /\ call = NoCall
    /\ ret = NoRet
    /\ nfit = [i \in Inst |-> 0]
    /\ pipes = [n \in {} |-> <<>>]
    /\ handles = NoHandles

\* instance i .fit_to_data(data) up to the open(..., "w") of save_pretrained and
\* the json.dump into the handle
FitOpen(i, data) ==
    LET self == FitToData(cls[i], stage[i], NoFiles, data).self
        name == FileName(cls[i])
    IN /\ handles[i] = NoHandle
       /\ nfit[i] < 2
       /\ Saves(cls[i])
       /\ stage' = [stage EXCEPT ![i] = self]
       /\ files' = [files EXCEPT !["."] = Put(@, name, <<>>)]
       /\ handles' = [handles EXCEPT ![i] = [name |-> name, text |-> Text(cls[i], self)]]
       /\ call' = [NoCall EXCEPT !.op = "open", !.inst = i, !.flag = Flag(stage[i])]
       /\ ret' = NoRet
       /\ UNCHANGED <<cls, nfit, made, pipes>>

\* the end of the with block of instance i: the buffer goes to the file, the
\* handle is closed, save_pretrained and fit_to_data return
FitClose(i) ==
    /\ handles[i] # NoHandle
    /\ files' = [files EXCEPT !["."][handles[i].name] = Overwrite(@, handles[i].text)]
    /\ handles' = [handles EXCEPT ![i] = NoHandle]
    /\ call' = [NoCall EXCEPT !.op = "fit_to_data", !.inst = i]
    /\ ret' = [NoRet EXCEPT !.kind = "return"]
    /\ nfit' = [nfit EXCEPT ![i] = @ + 1]
    /\ UNCHANGED <<cls, stage, made, pipes>>

NextSave ==
    \/ \E i \in Inst : \E data \in PipeData(cls[i]) : FitOpen(i, data)
    \/ \E i \in Inst : FitClose(i)

SpecSave == InitSave /\ [][NextSave]_vars

----------------------------------------------------------------------------
(* What the claims speak of *)

\* the fitted parameters of an object
FittedAttrs == {"is_fitted", "vocabulary", "vocabulary_target", "MAX_LENGTH", "pad_item",
                "mean", "stddev"}
Params(self) == [k \in DOMAIN self \cap FittedAttrs |-> self[k]]

\* the variants that carry an is_fitted flag and fitted parameters
FlagClasses == {"Normalisation", "PreprocessTextData", "PreprocessTextTranslation",
                "PreprocessTextQA"}
TextClasses == {"PreprocessTextData", "PreprocessTextTranslation", "PreprocessTextQA"}

\* <c>.json in the working directory holds what instance i would save now
Persisted(i) ==
    /\ FileName(cls[i]) \in DOMAIN files["."]
    /\ files["."][FileName(cls[i])] = JsonDump(Encode(cls[i], stage[i]))

\* the datum transform is given for a sample of the corpus
DatumOf(c, sample) ==
    CASE c = "Normalisation" -> PyTensor([j \in 1..Len(sample) |-> Num(sample[j])])
      [] c \in {"PreprocessTextData", "PreprocessTextLabel"} -> sample.v[2]
      [] OTHER -> sample

\* instance i is as one fit_to_data(data) on the constructed object leaves it
FittedOn(i, data) ==
    /\ nfit[i] = 1
    /\ stage[i] = FitToData(cls[i], made[i], NoFiles, data).self

\* C1 (as claimed): after a fitted stage has saved, load_pretrained on a fresh
\* stage of the same type leaves it with the fitted parameters of the saver.
C1_RoundTrip ==
    (/\ call.op = "load_pretrained" /\ call.inst = 2 /\ ret.kind = "return"
     /\ nfit[1] >= 1 /\ nfit[2] = 0
     /\ Persisted(1))
    => Params(stage[2]) = Params(stage[1])

\* C2 (as claimed): once instance 1 is fitted and persisted, the never-fitted
\* instance 2 returns from transform(x) what instance 1 returns, for every
\* sample x of the fitted corpus.
C2_InferenceWithoutFit ==
    (/\ call.op = "transform" /\ call.inst = 2 /\ nfit[2] = 0
     /\ Persisted(1)
     /\ \E data \in Datasets(cls[1]) :
           /\ FittedOn(1, data)
           /\ \E k \in 1..Len(data) : call.arg = DatumOf(cls[1], data[k]))
    => /\ ret.kind = Transform(cls[1], stage[1], files, call.arg).kind
       /\ ret.val = Transform(cls[1], stage[1], files, call.arg).val

\* C3 (as claimed): in the variants with an is_fitted flag, the flag is false
\* after construction and true once a fit_to_data call has returned.
C3_FittedFlag ==
    \A i \in Inst : cls[i] \in FlagClasses =>
        /\ (call.op = "none" => ~stage[i].is_fitted)
        /\ (nfit[i] >= 1 => stage[i].is_fitted)

\* the texts of a datum of a text stage, each with the tokenizer, the vocabulary
\* and the pad id that are its own
OwnSequences(c, self, datum) ==
    CASE c = "PreprocessTextData" ->
            <<[text |-> Unwrap(datum).v, tk |-> self.tokenizer, voc |-> self.vocabulary]>>
      [] c = "PreprocessTextTranslation" ->
            <<[text |-> datum.v[1].v, tk |-> self.tokenizer, voc |-> self.vocabulary],
              [text |-> datum.v[2].v, tk |-> self.tokenizer_target,
               voc |-> self.vocabulary_target]>>
      [] c = "PreprocessTextQA" ->
            <<[text |-> datum.v[1].v, tk |-> self.tokenizer, voc |-> self.vocabulary],
              [text |-> datum.v[2].v, tk |-> self.tokenizer, voc |-> self.vocabulary]>>

\* the sequences a text transform returned
Outputs(val) == IF val.py = "tensor" THEN <<val.v>> ELSE [k \in 1..Len(val.v) |-> val.v[k].v]

\* out is the ids of the tokens of q.text, then the pad id, maxlen entries in all
PaddedIds(out, q, maxlen) ==
    LET ids == Ids(q.voc, Tokenize(q.tk, q.text))
    IN /\ Len(out) = maxlen
       /\ \A k \in 1..Len(out) :
             out[k] = Num(IF k <= Len(ids) THEN ids[k] ELSE VocabGet(q.voc, DotToken))
       /\ Len(ids) <= Len(out)

\* C4 (as claimed): every sample given to the transform of a fitted text stage,
\* longer ones included, comes back as sequences of exactly MAX_LENGTH entries:
\* the ids of its tokens, then the pad id.
C4_PaddingInvariant ==
    (/\ call.op = "transform" /\ call.inst \in Inst
     /\ cls[call.inst] \in TextClasses
     /\ nfit[call.inst] >= 1)
    => /\ ret.kind = "return"
       /\ LET self == stage[call.inst]
              own == OwnSequences(cls[call.inst], self, call.arg)
          IN /\ Len(Outputs(ret.val)) = Len(own)
             /\ \A k \in 1..Len(own) :
                   /\ Len(Outputs(ret.val)[k]) = self.MAX_LENGTH
                   /\ \/ Len(Tokenize(own[k].tk, own[k].text)) > self.MAX_LENGTH
                      \/ PaddedIds(Outputs(ret.val)[k], own[k], self.MAX_LENGTH)

\* C5 (as claimed): the pair PreprocessTextTranslation.transform returns is the
\* source under the source tokenizer and vocabulary and the target under the
\* target tokenizer and vocabulary, each padded with its own pad id.
C5_TranslationOwnVocabulary ==
    (/\ call.op = "transform" /\ call.inst \in Inst
     /\ cls[call.inst] = "PreprocessTextTranslation"
     /\ ret.kind = "return")
    => LET self == stage[call.inst]
           own == OwnSequences(cls[call.inst], self, call.arg)
       IN \A k \in 1..2 : PaddedIds(Outputs(ret.val)[k], own[k], self.MAX_LENGTH)

\* C7 (as claimed): transform on a never fitted stage with no persisted file
\* warns about the file and returns an artifact.
C7_LenientUnfitted ==
    (/\ call.op = "transform" /\ call.inst \in Inst
     /\ cls[call.inst] \in FlagClasses
     /\ nfit[call.inst] = 0
     /\ FileName(cls[call.inst]) \notin DOMAIN files["."])
    => /\ "file does not exist" \in ret.warn
       /\ ret.kind = "return"

\* what fit_to_data(data) leaves of the parameters and of the persisted file
FitResult(c, self, fs, data) ==
    LET r == FitToData(c, self, fs, data)
    IN [params |-> Params(r.self), file |-> r.files["."]]

\* C8 (as claimed): a fit on any second dataset leaves a fitted stage and its
\* file as the same fit leaves a freshly constructed stage.
C8_RefitOverwrites ==
    \A i \in Fitters : nfit[i] >= 1 =>
        \A data \in Datasets(cls[i]) :
            FitResult(cls[i], stage[i], files, data)
                = FitResult(cls[i], made[i], NoFiles, data)

\* C9: fitting twice in a row on the same dataset leaves, after the second
\* call, the fitted parameters the first call left.
C9_FitIdempotent ==
    \A i \in Fitters : \A data \in Datasets(cls[i]) :
        LET once == FitToData(cls[i], stage[i], files, data)
            twice == FitToData(cls[i], once.self, once.files, data)
        IN Params(twice.self) = Params(once.self)

\* a state two fits of a fresh stage on one dataset that is not empty lead to
C9_Witness ==
    /\ call.op = "fit_to_data" /\ nfit[1] = 2
    /\ \E data \in Datasets(cls[1]) \ {<<>>} :
          LET once == FitToData(cls[1], made[1], NoFiles, data)
          IN stage[1] = FitToData(cls[1], once.self, once.files, data).self
    /\ cls[1] \in TextClasses /\ stage[1].MAX_LENGTH > 0

C6_CompositionLaw ==
    "P" \in DOMAIN pipes =>
        \A x \in PipeSamples :
            LET whole == PipelineTransform(pipes["P"], stage, files, x)
                first == PipelineTransform(pipes["A"], stage, files, x)
                second == PipelineTransform(pipes["B"], first.stage, first.files, first.val)
            IN IF first.kind = "raise"
               THEN /\ whole.kind = "raise" /\ whole.val = first.val
                    /\ whole.steps = first.steps
                    /\ whole.stage = first.stage
               ELSE /\ whole.kind = second.kind /\ whole.val = second.val
                    /\ whole.steps = first.steps \o second.steps
                    /\ whole.stage = second.stage
                    /\ (whole.kind = "return" =>
                           whole.steps = [k \in 1..Len(pipes["P"]) |-> pipes["P"][k][1]])

\* P = A + B of two different stages, both fitted, was called and returned
C6_Witness ==
    /\ "P" \in DOMAIN pipes
    /\ pipes["A"] # <<>> /\ pipes["B"] # <<>>
    /\ pipes["A"][1][1] # pipes["B"][1][1]
    /\ call.op = "transform" /\ call.pipe = "P"
    /\ ret.kind = "return" /\ Len(ret.steps) = Len(pipes["A"]) + Len(pipes["B"])
    /\ \A i \in Inst : nfit[i] = 1

\* C11: load_pretrained on a directory without <TypeName>.json returns normally
\* with a warning and leaves every attribute of the stage as it was.
C11_LoadMissingFile ==
    [][(/\ call'.op = "load_pretrained"
        /\ FileName(cls[call'.inst]) \notin DOMAIN files[call'.arg.v[1]])
       => (/\ ret'.kind = "return"
           /\ ret'.warn # {}
           /\ stage' = stage
           /\ files' = files)]_vars

\* a fitted stage was asked to load from the directory nothing is saved in
C11_Witness ==
    /\ call.op = "load_pretrained" /\ call.arg = PyPath("empty")
    /\ call.flag = "true"
    /\ DOMAIN files["empty"] = {}
    /\ ret.kind = "return" /\ ret.warn # {}
    /\ stage[call.inst].is_fitted
    /\ DOMAIN stage[call.inst] \cap {"vocabulary", "stddev"} # {}

\* C12 (as claimed): a transform call on a fitted stage leaves the fitted
\* parameters of the stage as they were, and the same call made again on the
\* stage it leaves behind has the same outcome.
C12_TransformPureReader ==
    [][(call'.op = "transform" /\ nfit[call'.inst] >= 1)
       => LET i == call'.inst
              again == Transform(cls[i], stage'[i], files', call'.arg)
          IN /\ Params(stage'[i]) = Params(stage[i])
             /\ again.kind = ret'.kind /\ again.val = ret'.val]_vars

\* the entries of a stddev are numbers (no NaN), and one of them is zero
IsFinite(std) == \A j \in 1..Len(std) : std[j][2] # 0
HasZero(std) == \E j \in 1..Len(std) : std[j][1] = 0 /\ std[j][3] = 0

TokenCounts(c, self, data) ==
    CASE c = "PreprocessTextData" ->
            {Len(Tokenize(self.tokenizer, Unwrap(data[k].v[2]).v)) : k \in 1..Len(data)}
      [] c = "PreprocessTextTranslation" ->
            {Len(Tokenize(self.tokenizer, data[k].v[1].v)) : k \in 1..Len(data)}
            \cup {Len(Tokenize(self.tokenizer_target, data[k].v[2].v)) : k \in 1..Len(data)}
      [] c = "PreprocessTextQA" ->
            {Len(Tokenize(self.tokenizer, Unwrap(data[k].v[1]).v)) : k \in 1..Len(data)}
            \cup {Len(Tokenize(self.tokenizer, Unwrap(data[k].v[2]).v)) : k \in 1..Len(data)}

\* the largest of a set of lengths, 0 when there is none
Largest(S) == IF S = {} THEN 0 ELSE CHOOSE m \in S : \A x \in S : x <= m

\* [("1", "the cat sat"), ("2", "a dog ran fast")]
Scenario1 ==
    << PyTuple(<<PyStr(<<49>>),
                 PyStr(<<116, 104, 101, 32, 99, 97, 116, 32, 115, 97, 116>>)>>),
       PyTuple(<<PyStr(<<50>>),
                 PyStr(<<97, 32, 100, 111, 103, 32, 114, 97, 110, 32, 102, 97, 115, 116>>)>>) >>
Scenario1Fitted ==
    TextDataFit(NewPreprocessTextData("basic_english", NoVocab), NoFiles, Scenario1).self

\* C14: fit_to_data on a freshly constructed text stage leaves MAX_LENGTH at the
\* largest token count over the sequences of the corpus (source and target,
\* context and question), 0 for the empty corpus, and 4 for the corpus
\* [("1", "the cat sat"), ("2", "a dog ran fast")].
C14_MaxLength ==
    /\ \A i \in Fitters : cls[i] \in TextClasses =>
          \A data \in Datasets(cls[i]) :
              FitToData(cls[i], made[i], NoFiles, data).self.MAX_LENGTH
                  = Largest(TokenCounts(cls[i], made[i], data))
    /\ \A i \in Fitters : \A data \in Datasets(cls[i]) :
          (cls[i] \in TextClasses /\ FittedOn(i, data)) =>
              stage[i].MAX_LENGTH = Largest(TokenCounts(cls[i], made[i], data))
    /\ Scenario1Fitted.MAX_LENGTH = 4

\* a fresh text stage was fitted once on two samples, the longer one first
C14_Witness ==
    /\ cls[1] \in TextClasses /\ call.op = "fit_to_data"
    /\ \E data \in Datasets(cls[1]) :
          /\ Len(data) = 2 /\ FittedOn(1, data)
          /\ stage[1].MAX_LENGTH = 2
          /\ Largest(TokenCounts(cls[1], made[1], <<data[2]>>)) = 1

\* ("the quick brown fox", "", ["brown"], [10])
Scenario3 ==
    PyTuple(<< PyStr(<<116, 104, 101, 32, 113, 117, 105, 99, 107, 32, 98, 114, 111, 119,
                       110, 32, 102, 111, 120>>),
               PyStr(<<>>),
               PyTuple(<<PyStr(<<98, 114, 111, 119, 110>>)>>),
               PyTuple(<<PyInt(10)>>) >>)
Scenario3Result ==
    QATargetTransform(NewPreprocessTextQATarget("basic_english"), NoFiles, Scenario3).val

\* the pair of positions
Positions(start, end) == PyTuple(<<PyTensor(<<Num(start)>>), PyTensor(<<Num(end)>>)>>)

\* C15: PreprocessTextQATarget.transform returns (start, end), start the number
\* of tokens of the context before the answer's offset and end = start + the
\* number of tokens of the answer; the stage's fits and loads change neither the
\* stage nor what it returns for a sample; ("the quick brown fox", "brown" at
\* 10) gives (2, 3).
C15_AnswerPositions ==
    /\ \A i \in Inst : cls[i] = "PreprocessTextQATarget" =>
          /\ stage[i] = made[i]
          /\ \A x \in QASamples :
                LET now == Transform(cls[i], stage[i], files, x)
                    context == x.v[1].v
                    offset == x.v[4].v[1].v[1]
                    before == SubSeq(context, 1, offset)
                    start == Len(Tokenize(made[i].tokenizer, before))
                    end == start + Len(Tokenize(made[i].tokenizer, x.v[3].v[1].v))
                IN /\ now.kind = "return"
                   /\ now.val = Positions(start, end)
                   /\ end >= start
    /\ (call.op = "transform" /\ cls[call.inst] = "PreprocessTextQATarget") =>
          ret = Outcome(Transform(cls[call.inst], made[call.inst], NoFiles, call.arg))
    /\ Scenario3Result = Positions(2, 3)

\* after a fit, the stage returned the positions (1, 2) of "a" in "b a"
C15_Witness ==
    /\ call.op = "transform" /\ cls[call.inst] = "PreprocessTextQATarget"
    /\ nfit[call.inst] >= 1
    /\ call.arg.v[1] = PyStr(<<98, 32, 97>>) /\ call.arg.v[4].v[1] = PyInt(2)
    /\ ret.kind = "return" /\ ret.val = Positions(1, 2)

\* C17: P = A + B has len(P) = len(A) + len(B), P[i] = A[i] below len(A) and
\* P[len(A) + j] = B[j]; the step that makes P leaves the lists of A and B and
\* the stages as they were.
C17_Concatenation ==
    /\ []("P" \in DOMAIN pipes =>
            LET A == pipes["A"]
                B == pipes["B"]
                P == pipes["P"]
            IN /\ PipelineLen(P) = PipelineLen(A) + PipelineLen(B)
               /\ \A i \in 0..(PipelineLen(A) - 1) :
                     PipelineGetItem(P, i) = PipelineGetItem(A, i)
               /\ \A j \in 0..(PipelineLen(B) - 1) :
                     PipelineGetItem(P, PipelineLen(A) + j) = PipelineGetItem(B, j))
    /\ [][call'.op = "__add__" =>
             /\ "P" \in DOMAIN pipes'
             /\ pipes'["A"] = pipes["A"] /\ pipes'["B"] = pipes["B"]
             /\ stage' = stage]_vars

\* P was made of two different pipelines, neither of them empty
C17_Witness ==
    /\ call.op = "__add__" /\ "P" \in DOMAIN pipes
    /\ pipes["A"] # <<>> /\ pipes["B"] # <<>> /\ pipes["A"] # pipes["B"]
    /\ Len(pipes["P"]) = Len(pipes["A"]) + Len(pipes["B"])

\* C16: a fit_to_data of a pipeline that returned has called fit_to_data of
\* every entry of the list once, in the order of the list: the first stage on the
\* dataset the pipeline was given, every later one on the dataset its
\* predecessor's marker class made of the predecessor's dataset and the
\* predecessor, which was fitted by then.
C16_FitInListOrder ==
    (call.op = "fit_to_data" /\ call.pipe # "" /\ ret.kind = "return") =>
        LET list == pipes[call.pipe]
            calls == ret.steps
        IN /\ Len(calls) = Len(list)
           /\ \A k \in 1..Len(list) : calls[k].stage = list[k][1]
           /\ Len(list) > 0 => calls[1].data = call.arg
           /\ \A k \in 2..Len(list) :
                 calls[k].data = [py |-> "dataset", type |-> list[k - 1][2],
                                  data |-> calls[k - 1].data, preproc |-> list[k - 1][1]]
           /\ \A k \in 1..Len(list) : nfit[list[k][1]] >= 1

\* a pipeline of two different stages was fitted, and its first stage is fitted
C16_Witness ==
    /\ call.op = "fit_to_data" /\ call.pipe # "" /\ ret.kind = "return"
    /\ Len(pipes[call.pipe]) >= 2
    /\ pipes[call.pipe][1][1] # pipes[call.pipe][2][1]
    /\ Len(ret.steps) = Len(pipes[call.pipe])
    /\ ret.steps[2].data.py = "dataset"
    /\ stage[pipes[call.pipe][1][1]].is_fitted

\* C13 (as claimed): the directory holds only <TypeName>.json of the types of
\* the instances, a file of a type holds nothing an instance of another type
\* wrote, and once no save is running the file of the instance whose save
\* ended last is exactly the text of that instance's state.
C13_LastWriterWins ==
    /\ DOMAIN files["."] \subseteq {FileName(cls[i]) : i \in Inst}
    /\ \A i \in Inst : FileName(cls[i]) \in DOMAIN files["."] =>
          \A k \in 1..Len(files["."][FileName(cls[i])]) :
              files["."][FileName(cls[i])][k].of.py_object = cls[i]
    /\ (call.op = "fit_to_data" /\ handles = NoHandles) =>
          files["."][FileName(cls[call.inst])]
              = Text(cls[call.inst], stage[call.inst])

====
